---- MODULE Spec2Model ----
(***************************************************************************)
(* A model of the httpie command-line client.                              *)
(*                                                                         *)
(* The repository holds the client twice: src/main.rs is the one-file      *)
(* program, src/http/{mod,get,post}.rs is the same program split into a    *)
(* module, with its unwraps turned into `?`.  The variable `impl` says     *)
(* which of the two is running; every operation below follows the text of  *)
(* the version it names.                                                   *)
(*                                                                         *)
(* Strings are sequences of one-character strings ("a=1" is                *)
(* <<"a","=","1">>), so that splitting, prefixing and concatenation are    *)
(* computed and not assumed.  Header values, bodies and printed text are   *)
(* sequences of lexemes.                                                   *)
(***************************************************************************)
EXTENDS Integers, Sequences, FiniteSets, TLC

VARIABLES
    impl,       \* "main" (src/main.rs) or "http" (src/http/*.rs)
    cmd,        \* the command line: [method, url, body], raw strings
    pc,         \* position of the run
    args,       \* the Get / Post value clap built, or NoArgs
    sends,      \* number of calls of RequestBuilder::send()
    request,    \* the request handed to send(), or NoRequest
    resp,       \* the Response send() returned, or NoResp
    mime,       \* what get_content_type returned (Option<Mime>)
    body,       \* what resp.text() returned
    out,        \* the chunks written to stdout, in order
    result,     \* how the run ended
    testIn,     \* tests module: the input of the function under test
    testOut     \* tests module: what it returned

vars == <<impl, cmd, pc, args, sends, request, resp, mime, body, out, result,
          testIn, testOut>>

testVars == <<testIn, testOut>>

(***************************************************************************)
(* Bounds                                                                  *)
(***************************************************************************)
\* longest string given to the functions under test
MaxLen == 4
\* most body tokens on a `post` command line
MaxBody == 2
\* most headers of a response
MaxHeaders == 2

(***************************************************************************)
(* Strings                                                                 *)
(***************************************************************************)
Chars == {"a", "1", "=", ":"}

Strs == UNION {[1..n -> Chars] : n \in 0..MaxLen}

Letters == {"a", "b", "c", "h", "p", "t", "x", "y", "z"}

Digits == {"1", "2"}

\* the first position of character c in s, 0 when there is none
RECURSIVE IndexFrom(_, _, _)
IndexFrom(s, c, i) ==
    IF i > Len(s) THEN 0
    ELSE IF s[i] = c THEN i
    ELSE IndexFrom(s, c, i + 1)

Find(s, c) == IndexFrom(s, c, 1)

Contains(s, c) == Find(s, c) # 0

\* str::split("="): the pieces between the separators, every separator cut
RECURSIVE Split(_, _)
Split(s, c) ==
    LET i == Find(s, c)
    IN  IF i = 0 THEN <<s>>
        ELSE <<SubSeq(s, 1, i - 1)>> \o Split(SubSeq(s, i + 1, Len(s)), c)

Ok(v) == [ok |-> TRUE, val |-> v]

Err(from, msg) == [ok |-> FALSE, from |-> from, msg |-> msg]

(***************************************************************************)
(* parse_url: reqwest::Url's FromStr decides, the input is returned as is. *)
(***************************************************************************)
SpecialSchemes == {<<"h", "t", "t", "p">>}

RECURSIVE StripSlashes(_)
StripSlashes(s) ==
    IF s # <<>> /\ Head(s) = "/" THEN StripSlashes(Tail(s)) ELSE s

\* an absolute URL: a scheme (a letter, then letters and digits) before the
\* first ':', and for a special scheme a host after the slashes
UrlParses(s) ==
    LET i == Find(s, ":")
    IN  /\ i > 1
        /\ s[1] \in Letters
        /\ \A j \in 1..(i - 1) : s[j] \in Letters \cup Digits
        /\ (SubSeq(s, 1, i - 1) \in SpecialSchemes
              => StripSlashes(SubSeq(s, i + 1, Len(s))) # <<>>)

parse_url(s) ==
    IF UrlParses(s) THEN Ok(s)
    ELSE Err("parse_url", <<"relative URL without a base">>)

(***************************************************************************)
(* KvPair::from_str and parse_kv_pair                                      *)
(***************************************************************************)
KvPair(k, v) == [key |-> k, value |-> v]

\* a slip: a missing value read as the empty string
KvPair_from_str_default(s) ==
    LET parts == Split(s, "=")
    IN  Ok(KvPair(parts[1], IF Len(parts) < 2 THEN <<>> ELSE parts[2]))

\* parts.next() twice: the first two pieces of the split, the rest is dropped
KvPair_from_str(s) ==
    LET parts == Split(s, "=")
    IN  IF Len(parts) < 2
        THEN Err("parse_kv_pair", <<"Failed to parse ">> \o s)
        ELSE Ok(KvPair(parts[1], parts[2]))

parse_kv_pair(s) == KvPair_from_str(s)

(***************************************************************************)
(* The tests module: a function applied to an input.                       *)
(***************************************************************************)
NoResult == [ok |-> FALSE, from |-> "none", msg |-> <<>>]

test_parse_kv_pair ==
    /\ pc = "test"
    /\ testOut' = parse_kv_pair(testIn)
    /\ pc' = "test_parse_kv_pair"
    /\ UNCHANGED <<impl, cmd, args, sends, request, resp, mime, body, out, result, testIn>>

test_parse_url ==
    /\ pc = "test"
    /\ testOut' = parse_url(testIn)
    /\ pc' = "test_parse_url"
    /\ UNCHANGED <<impl, cmd, args, sends, request, resp, mime, body, out, result, testIn>>

(***************************************************************************)
(* The command line                                                        *)
(***************************************************************************)
U_abc == <<"a", "b", "c">>

U_http == <<"h", "t", "t", "p", ":", "/", "/", "a", "b", "c", ".", "x", "y", "z">>

UrlArgs == {U_abc, U_http}

T_a1 == <<"a", "=", "1">>

T_a2 == <<"a", "=", "2">>

T_b2 == <<"b", "=", "2">>

T_a == <<"a">>

T_a12 == <<"a", "=", "1", "=", "2">>

T_xy == <<"x", ":", "y">>

BodyTokens == {T_a1, T_a2, T_b2, T_a, T_a12, T_xy}

BodySeqs == UNION {[1..n -> BodyTokens] : n \in 0..MaxBody}

Commands ==
    [method : {"get"}, url : UrlArgs, body : {<<>>}]
        \cup [method : {"post"}, url : UrlArgs, body : BodySeqs]

Impls == {"main", "http"}

(***************************************************************************)
(* Responses                                                               *)
(***************************************************************************)
\* a header value that is visible ASCII, and one that is not
Text(v) == [text |-> TRUE, v |-> v]

Opaque(v) == [text |-> FALSE, v |-> v]

V_json == <<"application", "/", "json">>

V_json_charset == <<"application", "/", "json", ";", " ", "charset", "=", "utf-8">>

V_JSON == <<"APPLICATION", "/", "JSON">>

V_plain == <<"text", "/", "plain">>

V_garbage == <<"garbage">>

ContentTypeValues ==
    {Text(V_json), Text(V_json_charset), Text(V_JSON), Text(V_plain),
     Text(V_garbage), Opaque(<<"\\xff">>)}

CONTENT_TYPE == "content-type"

HeaderPool ==
    {[name |-> "server", value |-> Text(<<"nginx">>)],
     [name |-> "date", value |-> Text(<<"today">>)]}
        \cup {[name |-> CONTENT_TYPE, value |-> v] : v \in ContentTypeValues}

\* a header map iterates every name once
HeaderSeqs ==
    UNION {{h \in [1..n -> HeaderPool] :
                \A i, j \in 1..n : i # j => h[i].name # h[j].name}
            : n \in 0..MaxHeaders}

B_json == <<"{", "\"a\"", ":", "1", ",", "\"b\"", ":", "2", "}">>

B_notjson == <<"not", " ", "json">>

B_hello == <<"hello">>

Bodies == {B_json, B_notjson, B_hello}

Statuses == {"200 OK", "404 Not Found"}

Responses ==
    [version : {"HTTP/1.1"}, status : Statuses, headers : HeaderSeqs, body : Bodies]

(***************************************************************************)
(* The state before a run                                                  *)
(***************************************************************************)
NoArgs == [method |-> "none", url |-> <<>>, body |-> <<>>]

NoJson == <<>>

NoRequest == [method |-> "none", url |-> <<>>, json |-> NoJson]

NoResp == [version |-> "none", status |-> "none", headers |-> <<>>, body |-> <<>>]

None == <<>>

Some(x) == <<x>>

Pending == [kind |-> "none", from |-> "none", msg |-> <<>>]

Done == [kind |-> "ok", from |-> "main", msg |-> <<>>]

Failed(e) == [kind |-> "err", from |-> e.from, msg |-> e.msg]

Panicked(site) == [kind |-> "panic", from |-> site, msg |-> <<>>]

Init ==
    /\ impl \in Impls
    /\ cmd \in Commands
    /\ pc = "cli"
    /\ args = NoArgs
    /\ sends = 0
    /\ request = NoRequest
    /\ resp = NoResp
    /\ mime = None
    /\ body = <<>>
    /\ out = <<>>
    /\ result = Pending
    /\ testIn = <<>>
    /\ testOut = NoResult

(***************************************************************************)
(* Opts::parse(): clap runs each argument's value_parser in order and      *)
(* exits on the first error; then the derive builds the Get / Post value.  *)
(***************************************************************************)
\* a slip: the url argument left to clap's own String parser
UrlValueParser_unchecked(s) == Ok(s)

\* #[arg(value_parser = parse_url)] url: String
UrlValueParser(s) == parse_url(s)

\* the value_parser of Post.body: main.rs names parse_url, post.rs
\* names parse_kv_pair
BodyValueParser(s) ==
    IF impl = "main" THEN parse_url(s) ELSE parse_kv_pair(s)

Min(S) == CHOOSE x \in S : \A y \in S : x <= y

ParseArgs ==
    /\ pc = "cli"
    /\ LET u == UrlValueParser(cmd.url)
           vals == [i \in 1..Len(cmd.body) |-> BodyValueParser(cmd.body[i])]
           bad == {i \in 1..Len(cmd.body) : ~vals[i].ok}
       IN  IF ~u.ok
           THEN /\ result' = Failed(u)
                /\ pc' = "exit"
                /\ args' = args
           ELSE IF bad # {}
           THEN /\ result' = Failed(vals[Min(bad)])
                /\ pc' = "exit"
                /\ args' = args
           ELSE IF impl = "main" /\ cmd.body # <<>>
           \* the parser stored Strings, the derive asks for KvPairs
           THEN /\ result' = Panicked("from_arg_matches")
                /\ pc' = "panic"
                /\ args' = args
           ELSE /\ args' = [method |-> cmd.method,
                            url |-> u.val,
                            body |-> [i \in 1..Len(cmd.body) |-> vals[i].val]]
                /\ pc' = "dispatch"
                /\ result' = result
    /\ UNCHANGED <<impl, cmd, sends, request, resp, mime, body, out, testVars>>

(***************************************************************************)
(* get and post, up to send().await?                                       *)
(***************************************************************************)
EmptyMap == <<>>

\* a slip: entry(k).or_insert(v), the first value of a key kept
Insert_or_insert(m, k, v) ==
    [x \in (DOMAIN m) \cup {k} |-> IF x \in DOMAIN m THEN m[x] ELSE v]

\* HashMap::insert
Insert(m, k, v) == [x \in (DOMAIN m) \cup {k} |-> IF x = k THEN v ELSE m[x]]

\* for pair in args.body.iter() { body.insert(&pair.key, &pair.value); }
RECURSIVE InsertAll(_, _)
InsertAll(m, pairs) ==
    IF pairs = <<>> THEN m
    ELSE InsertAll(Insert(m, Head(pairs).key, Head(pairs).value), Tail(pairs))

Punct(c) == [t |-> "punct", s |-> <<c>>]

JsonStr(x) == [t |-> "str", s |-> x]

Orders(S) ==
    {f \in [1..Cardinality(S) -> S] : \A i, j \in DOMAIN f : i # j => f[i] # f[j]}

RECURSIVE Entries(_, _)
Entries(m, ks) ==
    IF ks = <<>> THEN <<>>
    ELSE <<JsonStr(Head(ks)), Punct(":"), JsonStr(m[Head(ks)])>>
             \o (IF Tail(ks) # <<>> THEN <<Punct(",")>> ELSE <<>>)
             \o Entries(m, Tail(ks))

\* .json(&body): the map as a JSON object, its entries in the map's
\* iteration order, which is any order
Serialize(m) ==
    {<<Punct("{")>> \o Entries(m, ks) \o <<Punct("}")>> : ks \in Orders(DOMAIN m)}

\* a slip: a failed send tried once more
Send_retry(req) ==
    /\ sends' = sends + 1
    /\ request' = req
    /\ \/ /\ resp' \in Responses
          /\ pc' = "print_status"
          /\ result' = result
       \/ /\ resp' = resp
          /\ pc' = IF sends = 0 THEN "dispatch" ELSE "exit"
          /\ result' = IF sends = 0 THEN result
                       ELSE Failed(Err("send", <<"error sending request">>))
    /\ UNCHANGED <<impl, cmd, args, mime, body, out, testVars>>

\* send().await?: one call; the transport answers or fails
Send(req) ==
    /\ sends' = sends + 1
    /\ request' = req
    /\ \/ /\ resp' \in Responses
          /\ pc' = "print_status"
          /\ result' = result
       \/ /\ resp' = resp
          /\ pc' = "exit"
          /\ result' = Failed(Err("send", <<"error sending request">>))
    /\ UNCHANGED <<impl, cmd, args, mime, body, out, testVars>>

get ==
    /\ pc = "dispatch"
    /\ args.method = "get"
    /\ Send([method |-> "GET", url |-> args.url, json |-> NoJson])

post ==
    /\ pc = "dispatch"
    /\ args.method = "post"
    /\ \E js \in Serialize(InsertAll(EmptyMap, args.body)) :
           Send([method |-> "POST", url |-> args.url, json |-> js])

(***************************************************************************)
(* print_resp                                                              *)
(***************************************************************************)
Chunk(by, text) == [by |-> by, text |-> text]

\* HeaderValue's Debug: the value between quotes
Debug(value) == <<"\"">> \o value.v \o <<"\"">>

\* println!("{}\n", status): the line, its newline and one more
print_status ==
    /\ pc = "print_status"
    /\ out' = Append(out, Chunk("print_status",
                 <<"\\e[34m", resp.version, " ", resp.status, "\\e[0m", "\n", "\n">>))
    /\ pc' = "print_headers"
    /\ UNCHANGED <<impl, cmd, args, sends, request, resp, mime, body, result, testVars>>

HeaderLine(h) ==
    Chunk("print_headers",
          <<"\\e[32m", h.name, "\\e[0m", ": ">> \o Debug(h.value) \o <<"\n">>)

\* a slip: the separator printed before the headers
print_headers_separator_first ==
    /\ pc = "print_headers"
    /\ out' = out \o <<Chunk("print_headers", <<"\n">>)>>
                  \o [i \in 1..Len(resp.headers) |-> HeaderLine(resp.headers[i])]
    /\ pc' = "get_content_type"
    /\ UNCHANGED <<impl, cmd, args, sends, request, resp, mime, body, result, testVars>>

\* one println! for each header, then print!("\n")
print_headers ==
    /\ pc = "print_headers"
    /\ out' = out \o [i \in 1..Len(resp.headers) |-> HeaderLine(resp.headers[i])]
                  \o <<Chunk("print_headers", <<"\n">>)>>
    /\ pc' = "get_content_type"
    /\ UNCHANGED <<impl, cmd, args, sends, request, resp, mime, body, result, testVars>>

(***************************************************************************)
(* get_content_type                                                        *)
(***************************************************************************)
Lower(t) ==
    CASE t = "APPLICATION" -> "application"
      [] t = "JSON" -> "json"
      [] OTHER -> t

MimeNames == {"application", "json", "text", "plain", "charset", "utf-8"}

\* str::parse::<Mime>(): type "/" subtype, then "; name=value" parameters;
\* the parsed value is the lower-cased source
MimeParse(v) ==
    LET l == [i \in 1..Len(v) |-> Lower(v[i])]
        n == Len(l)
    IN  IF /\ n >= 3
           /\ l[1] \in MimeNames /\ l[2] = "/" /\ l[3] \in MimeNames
           /\ (n > 3 => /\ n = 8
                        /\ l[4] = ";" /\ l[5] = " "
                        /\ l[6] \in MimeNames /\ l[7] = "=" /\ l[8] \in MimeNames)
        THEN Ok(l)
        ELSE Err("mime", <<"an invalid MIME type">>)

APPLICATION_JSON == <<"application", "/", "json">>

\* headers().get(CONTENT_TYPE): the first value under the name
HeaderGet(headers, name) ==
    LET at == {i \in 1..Len(headers) : headers[i].name = name}
    IN  IF at = {} THEN None ELSE Some(headers[Min(at)].value)

\* to_str() fails on a value that is not visible ASCII
ToStr(value) ==
    IF value.text THEN Ok(value.v) ELSE Err("to_str", <<"failed to convert header to a str">>)

get_content_type ==
    /\ pc = "get_content_type"
    /\ LET h == HeaderGet(resp.headers, CONTENT_TYPE)
           str == ToStr(h[1])
           m == MimeParse(str.val)
       IN  IF h = None
           THEN /\ mime' = None
                /\ pc' = "text"
                /\ result' = result
           ELSE IF impl = "main"
           \* .map(|v| v.to_str().unwrap().parse().unwrap())
           THEN IF ~str.ok
                THEN /\ mime' = mime
                     /\ pc' = "panic"
                     /\ result' = Panicked("to_str().unwrap()")
                ELSE IF ~m.ok
                THEN /\ mime' = mime
                     /\ pc' = "panic"
                     /\ result' = Panicked("parse().unwrap()")
                ELSE /\ mime' = Some(m.val)
                     /\ pc' = "text"
                     /\ result' = result
           \* Some(Ok(v)) => v.parse().ok(), _ => None
           ELSE /\ mime' = IF str.ok /\ m.ok THEN Some(m.val) ELSE None
                /\ pc' = "text"
                /\ result' = result
    /\ UNCHANGED <<impl, cmd, args, sends, request, resp, body, out, testVars>>

\* resp.text().await?: the whole body, or the transport's error
text ==
    /\ pc = "text"
    /\ \/ /\ body' = resp.body
          /\ pc' = "print_body"
          /\ result' = result
       \/ /\ body' = body
          /\ pc' = "exit"
          /\ result' = Failed(Err("text", <<"error decoding response body">>))
    /\ UNCHANGED <<impl, cmd, args, sends, request, resp, mime, out, testVars>>

(***************************************************************************)
(* print_body, jsonxf::pretty_print and syntect_print                      *)
(***************************************************************************)
Whitespace == {" ", "\n", "\t"}

JsonStrings == {"\"a\"", "\"b\""}

JsonScalars == JsonStrings \cup {"1", "2"}

NoSpace(b) == SelectSeq(b, LAMBDA t : t \notin Whitespace)

\* a scalar, or an object of string : scalar members
IsJson(b) ==
    LET t == NoSpace(b)
        n == Len(t)
    IN  \/ n = 1 /\ t[1] \in JsonScalars
        \/ /\ n >= 2 /\ t[1] = "{" /\ t[n] = "}"
           /\ (n > 2 => (n - 2) % 4 = 3)
           /\ \A i \in 2..(n - 1) :
                  CASE (i - 1) % 4 = 1 -> t[i] \in JsonStrings
                    [] (i - 1) % 4 = 2 -> t[i] = ":"
                    [] (i - 1) % 4 = 3 -> t[i] \in JsonScalars
                    [] OTHER -> t[i] = ","

NewLine(depth) == <<"\n">> \o [i \in 1..depth |-> "  "]

\* jsonxf's formatter: one pass over the input, no validation
RECURSIVE Format(_, _, _)
Format(b, depth, empty) ==
    IF b = <<>> THEN <<>>
    ELSE LET t == Head(b)
             r == Tail(b)
             lead == IF empty THEN NewLine(depth) ELSE <<>>
         IN  IF t \in Whitespace THEN Format(r, depth, empty)
             ELSE IF t \in {"{", "["}
             THEN lead \o <<t>> \o Format(r, depth + 1, TRUE)
             ELSE IF t \in {"}", "]"}
             THEN LET d == IF depth > 0 THEN depth - 1 ELSE 0
                  IN  (IF empty THEN <<>> ELSE NewLine(d)) \o <<t>> \o Format(r, d, FALSE)
             ELSE IF t = "," THEN <<t>> \o NewLine(depth) \o Format(r, depth, FALSE)
             ELSE IF t = ":" THEN <<t, " ">> \o Format(r, depth, FALSE)
             ELSE lead \o <<t>> \o Format(r, depth, FALSE)

\* jsonxf::pretty_print: what it may return.  Valid JSON is formatted; on
\* input that is not JSON the library promises neither to reject nor to
\* accept, so both are possible
pretty_print(b) ==
    IF IsJson(b) THEN {Ok(Format(b, 0, FALSE))}
    ELSE {Ok(Format(b, 0, FALSE)), Err("pretty_print", <<"invalid JSON">>)}

\* LinesWithEndings: cut after every "\n"
RECURSIVE Lines(_)
Lines(s) ==
    LET i == Find(s, "\n")
    IN  IF s = <<>> THEN <<>>
        ELSE IF i = 0 THEN <<s>>
        ELSE <<SubSeq(s, 1, i)>> \o Lines(SubSeq(s, i + 1, Len(s)))

\* as_24_bit_terminal_escaped: a colour escape before every lexeme
Highlight(line) ==
    [i \in 1..(2 * Len(line)) |-> IF i % 2 = 1 THEN "\\e[38;2m" ELSE line[i \div 2]]

\* print! of every highlighted line, then print!("\n")
syntect_print(s) ==
    [i \in 1..Len(Lines(s)) |-> Chunk("syntect_print", Highlight(Lines(s)[i]))]
        \o <<Chunk("syntect_print", <<"\n">>)>>

\* a slip: the parameters left out of the comparison
IsApplicationJson_essence(m) ==
    m # None /\ SubSeq(m[1], 1, 3) = APPLICATION_JSON

\* Some(v) if v == mime::APPLICATION_JSON
IsApplicationJson(m) ==
    m # None /\ m[1] = APPLICATION_JSON

print_body ==
    /\ pc = "print_body"
    /\ IF IsApplicationJson(mime)
       THEN \E p \in pretty_print(body) :
                IF p.ok
                THEN /\ out' = out \o syntect_print(p.val)
                     /\ pc' = "exit"
                     /\ result' = Done
                ELSE IF impl = "main"
                \* jsonxf::pretty_print(body).unwrap()
                THEN /\ out' = out
                     /\ pc' = "panic"
                     /\ result' = Panicked("pretty_print().unwrap()")
                \* jsonxf::pretty_print(body)?
                ELSE /\ out' = out
                     /\ pc' = "exit"
                     /\ result' = Failed(p)
       \* println!("{}", body)
       ELSE /\ out' = Append(out, Chunk("print_body", body \o <<"\n">>))
            /\ pc' = "exit"
            /\ result' = Done
    /\ UNCHANGED <<impl, cmd, args, sends, request, resp, mime, body, testVars>>

(***************************************************************************)
(* Specifications                                                          *)
(***************************************************************************)
Next ==
    \/ ParseArgs
    \/ get
    \/ post
    \/ print_status
    \/ print_headers
    \/ get_content_type
    \/ text
    \/ print_body

Spec == Init /\ [][Next]_vars

InitTest ==
    /\ impl = "http"
    /\ cmd = [method |-> "get", url |-> <<>>, body |-> <<>>]
    /\ pc = "test"
    /\ args = NoArgs
    /\ sends = 0
    /\ request = NoRequest
    /\ resp = NoResp
    /\ mime = None
    /\ body = <<>>
    /\ out = <<>>
    /\ result = Pending
    /\ testIn \in Strs
    /\ testOut = NoResult

NextTest ==
    \/ test_parse_kv_pair
    \/ test_parse_url

SpecTest == InitTest /\ [][NextTest]_vars

(***************************************************************************)
(* Properties                                                              *)
(***************************************************************************)
\* the part of s before its first '=', and the part after it
BeforeEq(s) == SubSeq(s, 1, Find(s, "=") - 1)

AfterEq(s) == SubSeq(s, Find(s, "=") + 1, Len(s))

KvTested == pc = "test_parse_kv_pair"

\* C1: for every k without '=' and every v, parse_kv_pair(k + "=" + v)
\* succeeds with key k and value v: the token is cut at its first '=' only,
\* and all the text after it is the value.
C1_SplitAtFirstEq ==
    (KvTested /\ Contains(testIn, "="))
        => testOut = Ok(KvPair(BeforeEq(testIn), AfterEq(testIn)))

\* C8: for every s without '=' (the empty string too), parse_kv_pair(s) is an
\* error whose message names s, never a KvPair.
C8_NoEqFails ==
    (KvTested /\ ~Contains(testIn, "="))
        => /\ ~testOut.ok
           /\ testOut.from = "parse_kv_pair"
           /\ SubSeq(testOut.msg, 2, Len(testOut.msg)) = testIn

C8_Witness ==
    /\ KvTested
    /\ testIn = <<"a", "1">>
    /\ ~testOut.ok

Ended == pc \in {"exit", "panic"}

\* resp.text() returned the body, so print_body is what ran next
BodyRead == body # <<>>

PrintBodyRan == Ended /\ BodyRead

ContentTypeHeader == HeaderGet(resp.headers, CONTENT_TYPE)

Last(q) == q[Len(q)]

\* the body as it is, and a newline, is the last thing printed, and nothing
\* was highlighted
PrintedVerbatim ==
    /\ out # <<>>
    /\ Last(out) = Chunk("print_body", resp.body \o <<"\n">>)
    /\ \A i \in 1..Len(out) : out[i].by # "syntect_print"

\* pretty_print was called: its text was highlighted, or its error ended the run
TookJsonBranch ==
    \/ \E i \in 1..Len(out) : out[i].by = "syntect_print"
    \/ result.from \in {"pretty_print", "pretty_print().unwrap()"}

\* C2: a response that declares application/json and whose body is not JSON
\* ends the run with the error of the pretty-printer returned to the caller:
\* no panic, and no successful render.
C2_MalformedJsonIsError ==
    (PrintBodyRan /\ IsApplicationJson(mime) /\ ~IsJson(body))
        => /\ pc = "exit"
           /\ result.kind = "err"
           /\ result.from = "pretty_print"

\* C3: the pretty-print-and-highlight branch is taken exactly when the parsed
\* content type equals application/json; every other content type, such as
\* application/json; charset=utf-8 and text/plain, has the body printed as it
\* is, followed by a newline, and nothing highlighted.
C3_JsonBranchIffExactMime ==
    PrintBodyRan
        => /\ TookJsonBranch <=> mime = Some(APPLICATION_JSON)
           /\ mime # Some(APPLICATION_JSON) => (PrintedVerbatim /\ result = Done)
           /\ ContentTypeHeader \in {Some(Text(V_json_charset)), Some(Text(V_plain))}
                  => PrintedVerbatim

C3_Witness ==
    /\ PrintBodyRan
    /\ ContentTypeHeader = Some(Text(V_json_charset))
    /\ resp.body = B_json
    /\ PrintedVerbatim

\* C4: a request is sent only for a URL that passed parse_url: when the URL
\* argument does not parse, the run ends in the parser's error with nothing
\* sent and nothing printed, and a Get / Post value holds a checked URL only.
C4_NoRequestForInvalidUrl ==
    /\ args # NoArgs => (UrlParses(args.url) /\ args.url = cmd.url)
    /\ sends > 0 => (UrlParses(request.url) /\ request.url = cmd.url)
    /\ (~UrlParses(cmd.url) /\ pc # "cli")
           => /\ pc = "exit"
              /\ result.kind = "err" /\ result.from = "parse_url"
              /\ sends = 0 /\ request = NoRequest /\ out = <<>>

C4_Witness ==
    /\ cmd.url = U_abc
    /\ pc = "exit"
    /\ result.from = "parse_url"
    /\ sends = 0

\* C5: in `post` every body token goes through parse_kv_pair when the
\* arguments are parsed: key=value tokens become the KvPairs of the request
\* body, and a token without '=' ends the run with the parser's error before
\* anything is sent.
C5_BodyTokensAreKvPairs ==
    (cmd.method = "post" /\ UrlParses(cmd.url) /\ pc # "cli")
        => IF \E i \in 1..Len(cmd.body) : ~Contains(cmd.body[i], "=")
           THEN /\ pc = "exit"
                /\ result.kind = "err" /\ result.from = "parse_kv_pair"
                /\ sends = 0
           ELSE /\ args.method = "post"
                /\ Len(args.body) = Len(cmd.body)
                /\ \A i \in 1..Len(cmd.body) :
                       /\ args.body[i].key = BeforeEq(cmd.body[i])
                       /\ args.body[i] = parse_kv_pair(cmd.body[i]).val

\* serde_json reading the object back into a map
Deserialize(js) ==
    InsertAll(EmptyMap,
              [i \in 1..(Len(js) \div 4) |-> KvPair(js[4 * i - 2].s, js[4 * i].s)])

Keys(pairs) == {pairs[i].key : i \in 1..Len(pairs)}

LastValue(pairs, k) ==
    LET at == {i \in 1..Len(pairs) : pairs[i].key = k}
    IN  pairs[CHOOSE i \in at : \A j \in at : j <= i].value

\* C6: the JSON object `post` sends has one entry for each distinct key of
\* the body pairs, holding the value of the last pair with that key; the
\* pairs [{a,1},{b,2}] are read back as {"a":"1","b":"2"}.
C6_LastDuplicateWins ==
    request.method = "POST"
        => LET m == Deserialize(request.json)
           IN  /\ DOMAIN m = Keys(args.body)
               /\ Len(request.json) \div 4 = Cardinality(Keys(args.body))
               /\ \A k \in Keys(args.body) : m[k] = LastValue(args.body, k)
               /\ cmd.body = <<T_a1, T_b2>>
                      => m = (<<"a">> :> <<"1">>) @@ (<<"b">> :> <<"2">>)

C6_Witness ==
    /\ request.method = "POST"
    /\ cmd.body = <<T_a1, T_a2>>
    /\ Deserialize(request.json) = (<<"a">> :> <<"2">>)

ContentTypeUnusable ==
    \/ ContentTypeHeader = None
    \/ ~ContentTypeHeader[1].text
    \/ ~MimeParse(ContentTypeHeader[1].v).ok

\* C7: with no Content-Type header, or one that is not text or not a MIME
\* type, the content type is absent: the body is printed as it is and the
\* run succeeds, with no panic and no error.
C7_UnusableContentTypeIsAbsent ==
    (Ended /\ resp # NoResp /\ ContentTypeUnusable /\ result.from # "text")
        => /\ mime = None
           /\ result = Done
           /\ PrintedVerbatim

\* C9: a call of get or post calls send() once and never again; when it
\* fails, the call ends with the transport's error as it is, and nothing is
\* printed.
C9_OneSendNoRetry ==
    /\ sends <= 1
    /\ (args # NoArgs /\ pc # "dispatch") => sends = 1
    /\ result.from = "send"
           => /\ pc = "exit"
              /\ result = Failed(Err("send", <<"error sending request">>))
              /\ resp = NoResp
              /\ out = <<>>

C9_Witness ==
    /\ result.from = "send"
    /\ sends = 1
    /\ pc = "exit"

Step(by) ==
    CASE by = "print_status" -> 1
      [] by = "print_headers" -> 2
      [] OTHER -> 3

NHeaders == Len(resp.headers)

====
